---- MODULE Spec2Model ----
(***************************************************************************)
(* Model of the persistence and auth layer of the short-video platform:    *)
(* the IndexedDB stores of utils/idb (users, session, logs) and the async  *)
(* functions of utils/auth (signup, login, logout, getCurrentUser,         *)
(* isAuthenticated).  Every `await` on a database request is one atomic    *)
(* step, so two calls in flight interleave at exactly the points where the *)
(* JavaScript event loop can switch between them.  A database request may  *)
(* also be rejected by the engine (quota, aborted transaction): each       *)
(* request step chooses nondeterministically between success and failure.  *)
(***************************************************************************)
EXTENDS Integers, Sequences, FiniteSets, TLC

VARIABLES users, session, logs, calls, lastLogin, faults,
          videos, videoBlobs, app, upload, watch, tasks, effects

\* the stores and calls of the auth layer, and the state of the pages
authVars == <<users, session, calls, lastLogin>>
mediaVars == <<videos, videoBlobs, app, upload, watch, tasks, effects>>

vars == <<users, session, logs, calls, lastLogin, faults,
          videos, videoBlobs, app, upload, watch, tasks, effects>>

(* ---------------------------- bounds ----------------------------------- *)

\* user ids handed out by crypto.randomUUID() are drawn from 1..MaxUserId
MaxUserId == 2
\* login and logout entries the log store may come to hold
MaxSessionLogs == 2
\* database requests the engine may reject in one run
MaxFaults == 1
\* salts bcrypt may generate
MaxSalt == 1

\* video ids handed out by crypto.randomUUID() are drawn from 1..MaxVideoId
MaxVideoId == 2
\* upload, view, like, comment and delete entries the log store may come to hold
MaxMediaLogs == 4
\* sizes in bytes of the files offered for upload
MaxFileSize == 2

UserIds == 1..MaxUserId
VideoIds == 1..MaxVideoId
FileSizes == 1..MaxFileSize
\* at most two async calls are in flight at the same time
Slots == {1, 2}
Salts == 1..MaxSalt
DemoNames == <<"alice", "bob", "carol", "dave">>
DemoEmails == <<"a@x.com", "b@y.com", "c@z.com", "d@w.com">>
Usernames == {"alice", "bob"}
Emails == {"a@x.com", "b@y.com"}
Passwords == {"pw1", "pw2"}

(* ---------------------------- values ----------------------------------- *)

\* `undefined` for a user lookup and for a session lookup
NoHash == [salt |-> 0, digest |-> ""]
NoUser == [id |-> 0, username |-> "", email |-> "", passwordHash |-> NoHash]
NoSession == 0

Min(S) == CHOOSE x \in S : \A y \in S : x <= y

\* bcrypt.hash(password, 10): the salt is stored with the digest
BcryptHash(password, salt) == [salt |-> salt, digest |-> <<salt, password>>]

\* bcrypt.compare replaced by a comparison of the password with the stored
\* digest itself
BcryptCompareDigestOnly(password, hash) == hash.digest = password

\* bcrypt.compare(password, hash): re-hash with the salt kept in the hash
BcryptCompare(password, hash) == BcryptHash(password, hash.salt) = hash

(* ---------------------------- idb stores ------------------------------- *)

\* the by-username and by-email indexes created without {unique: true}
UsersKeyConstraintOnly(store, user) == \E u \in store : u.id = user.id

\* the users store has keyPath 'id' and unique indexes by-username, by-email;
\* add() is rejected with a ConstraintError when any of the three collides
UsersConstraintViolated(store, user) ==
    \E u \in store : \/ u.id = user.id
                     \/ u.username = user.username
                     \/ u.email = user.email

\* getUserByUsername: db.getFromIndex('users', 'by-username', username)
getUserByUsername(store, username) ==
    IF \E u \in store : u.username = username
    THEN CHOOSE u \in store : u.username = username
    ELSE NoUser

\* getUserById: db.get('users', id)
getUserById(store, id) ==
    IF \E u \in store : u.id = id
    THEN CHOOSE u \in store : u.id = id
    ELSE NoUser

\* the session store has keyPath 'userId': a record per distinct user id.
\* saveSession: db.put('session', {userId, timestamp})
saveSession(store, userId) == store \cup {userId}

\* getSession: db.getAll('session')[0], getAll being ordered by key
getSession(store) == IF store = {} THEN NoSession ELSE Min(store)

\* clearSession: db.clear('session')
clearSession(store) == {}

\* a log store that keeps its two newest entries only
addLogRotating(store, log) ==
    IF Len(store) < 2 THEN Append(store, log) ELSE Append(Tail(store), log)

\* addLog: db.add('logs', {...log, id, timestamp}); by-date order is the
\* order of insertion
addLog(store, log) == Append(store, log)

SignupLogEntry(username) ==
    [type |-> "signup", message |-> <<"User", username, "signed up">>, metadata |-> <<>>]
LoginLogEntry(username, userId) ==
    [type |-> "login", message |-> <<"User", username, "logged in">>, metadata |-> <<userId>>]
LogoutLogEntry(userId) ==
    [type |-> "logout", message |-> <<"User logged out">>, metadata |-> <<userId>>]

(* ---------------------------- calls ------------------------------------ *)

\* what a call gave back to its caller
NoRet == [kind |-> "none", success |-> FALSE, message |-> "", user |-> NoUser]
Result(success, message, user) ==
    [kind |-> "value", success |-> success, message |-> message, user |-> user]
Threw == [kind |-> "threw", success |-> FALSE, message |-> "", user |-> NoUser]

Snapshot == [users |-> users, session |-> session, logs |-> logs, lastLogin |-> lastLogin]
NoSnapshot == [users |-> {}, session |-> {}, logs |-> <<>>, lastLogin |-> 0]

\* op/pc: the function running in the slot and the await it is parked on;
\* username, email, password: its arguments; user, sess: its locals;
\* ret: its result.  fault (a database request of this call was rejected)
\* and pre (the stores when the call started) record the history of the call.
IdleCall ==
    [op |-> "none", pc |-> "idle", username |-> "", email |-> "", password |-> "",
     user |-> NoUser, sess |-> NoSession, ret |-> NoRet,
     fault |-> FALSE, pre |-> NoSnapshot]

Active == {s \in Slots : calls[s].pc \notin {"idle", "done"}}
FreeSlots == Slots \ Active

NewCall(op, pc, username, email, password) ==
    [IdleCall EXCEPT !.op = op, !.pc = pc, !.username = username, !.email = email,
                     !.password = password, !.pre = Snapshot]

\* a call starts in the lowest free slot; the results of finished calls have
\* been consumed by then
Begin(s, call) ==
    /\ FreeSlots # {}
    /\ s = Min(FreeSlots)
    /\ calls' = [t \in Slots |->
                   IF t = s THEN call
                   ELSE IF t \in Active THEN calls[t]
                   ELSE IdleCall]

\* the single interactive client issues an operation when the previous one
\* has settled
Settled == Active = {}

Finish(s, ret) ==
    calls' = [calls EXCEPT ![s].pc = "done", ![s].ret = ret]

Fail(s, ret) ==
    calls' = [calls EXCEPT ![s].pc = "done", ![s].ret = ret, ![s].fault = TRUE]

SessionLogs == {i \in 1..Len(logs) : logs[i].type \in {"login", "logout"}}
CanLog == Cardinality(SessionLogs) + Cardinality(Active) < MaxSessionLogs

\* a signup that gets as far as createUser takes a fresh id from the pool
IdsLeft == Cardinality(users) + Cardinality(Active) < MaxUserId

\* a database request settles: it succeeds (ok) or the engine rejects it
Request(ok) ==
    /\ ok \/ faults < MaxFaults
    /\ faults' = IF ok THEN faults ELSE faults + 1

(* ---------------------------- signup ----------------------------------- *)

StartSignup(s) ==
    \E username \in Usernames, email \in Emails, password \in Passwords :
        /\ Settled
        /\ IdsLeft
        /\ Begin(s, NewCall("signup", "lookup", username, email, password))
        /\ UNCHANGED <<users, session, logs, lastLogin, faults>>
        /\ UNCHANGED mediaVars

\* a second submit of the signup form while a signup is still in flight
StartSignupInFlight(s) ==
    \E username \in Usernames, email \in Emails, password \in Passwords :
        /\ ~Settled
        /\ IdsLeft
        /\ Begin(s, NewCall("signup", "lookup", username, email, password))
        /\ UNCHANGED <<users, session, logs, lastLogin, faults>>
        /\ UNCHANGED mediaVars

\* signup without the existence check
SignupLookupNoCheck(s) ==
    /\ calls[s].op = "signup" /\ calls[s].pc = "lookup"
    /\ \E ok \in BOOLEAN :
         /\ Request(ok)
         /\ IF ~ok
            THEN Fail(s, Result(FALSE, "Failed to create account", NoUser))
            ELSE calls' = [calls EXCEPT ![s].pc = "create"]
    /\ UNCHANGED <<users, session, logs, lastLogin>>
    /\ UNCHANGED mediaVars

\* const existingUser = await getUserByUsername(username)
SignupLookup(s) ==
    /\ calls[s].op = "signup" /\ calls[s].pc = "lookup"
    /\ \E ok \in BOOLEAN :
         /\ Request(ok)
         /\ IF ~ok
            THEN Fail(s, Result(FALSE, "Failed to create account", NoUser))
            ELSE IF getUserByUsername(users, calls[s].username) # NoUser
            THEN Finish(s, Result(FALSE, "Username already exists", NoUser))
            ELSE calls' = [calls EXCEPT ![s].pc = "create"]
    /\ UNCHANGED <<users, session, logs, lastLogin>>
    /\ UNCHANGED mediaVars

\* passwordHash = await bcrypt.hash(password, 10); await createUser(user)
SignupCreate(s) ==
    /\ calls[s].op = "signup" /\ calls[s].pc = "create"
    /\ \E ok \in BOOLEAN, salt \in Salts, id \in UserIds :
         /\ Request(ok)
         /\ LET user == [id |-> id, username |-> calls[s].username,
                         email |-> calls[s].email,
                         passwordHash |-> BcryptHash(calls[s].password, salt)]
            IN  /\ \A u \in users : u.id # id
                /\ IF ~ok
                   THEN /\ Fail(s, Result(FALSE, "Failed to create account", NoUser))
                        /\ UNCHANGED users
                   ELSE IF UsersConstraintViolated(users, user)
                   THEN /\ Finish(s, Result(FALSE, "Failed to create account", NoUser))
                        /\ UNCHANGED users
                   ELSE /\ users' = users \cup {user}
                        /\ calls' = [calls EXCEPT ![s].pc = "log", ![s].user = user]
    /\ UNCHANGED <<session, logs, lastLogin>>
    /\ UNCHANGED mediaVars

\* await addLog({type: 'signup', ...}); return {success: true, ..., user}
SignupAddLog(s) ==
    /\ calls[s].op = "signup" /\ calls[s].pc = "log"
    /\ \E ok \in BOOLEAN :
         /\ Request(ok)
         /\ IF ~ok
            THEN /\ Fail(s, Result(FALSE, "Failed to create account", NoUser))
                 /\ UNCHANGED logs
            ELSE /\ logs' = addLog(logs, SignupLogEntry(calls[s].username))
                 /\ Finish(s, Result(TRUE, "Account created successfully", calls[s].user))
    /\ UNCHANGED <<users, session, lastLogin>>
    /\ UNCHANGED mediaVars

(* ---------------------------- login ------------------------------------ *)

StartLogin(s) ==
    \E username \in Usernames, password \in Passwords :
        /\ Settled
        /\ CanLog
        /\ Begin(s, NewCall("login", "lookup", username, "", password))
        /\ lastLogin' = 0
        /\ UNCHANGED <<users, session, logs, faults>>
        /\ UNCHANGED mediaVars

\* login with a message of its own for a username that is not stored
LoginLookupDistinguishes(s) ==
    /\ calls[s].op = "login" /\ calls[s].pc = "lookup"
    /\ \E ok \in BOOLEAN :
         /\ Request(ok)
         /\ LET user == getUserByUsername(users, calls[s].username)
            IN  IF ~ok
                THEN Fail(s, Result(FALSE, "Login failed", NoUser))
                ELSE IF user = NoUser
                THEN Finish(s, Result(FALSE, "User not found", NoUser))
                ELSE IF ~BcryptCompare(calls[s].password, user.passwordHash)
                THEN Finish(s, Result(FALSE, "Invalid username or password", NoUser))
                ELSE calls' = [calls EXCEPT ![s].pc = "save", ![s].user = user]
    /\ UNCHANGED <<users, session, logs, lastLogin>>
    /\ UNCHANGED mediaVars

\* user = await getUserByUsername(username);
\* isValidPassword = await bcrypt.compare(password, user.passwordHash)
LoginLookup(s) ==
    /\ calls[s].op = "login" /\ calls[s].pc = "lookup"
    /\ \E ok \in BOOLEAN :
         /\ Request(ok)
         /\ LET user == getUserByUsername(users, calls[s].username)
            IN  IF ~ok
                THEN Fail(s, Result(FALSE, "Login failed", NoUser))
                ELSE IF user = NoUser
                THEN Finish(s, Result(FALSE, "Invalid username or password", NoUser))
                ELSE IF ~BcryptCompare(calls[s].password, user.passwordHash)
                THEN Finish(s, Result(FALSE, "Invalid username or password", NoUser))
                ELSE calls' = [calls EXCEPT ![s].pc = "save", ![s].user = user]
    /\ UNCHANGED <<users, session, logs, lastLogin>>
    /\ UNCHANGED mediaVars

\* await saveSession(user.id)
LoginSave(s) ==
    /\ calls[s].op = "login" /\ calls[s].pc = "save"
    /\ \E ok \in BOOLEAN :
         /\ Request(ok)
         /\ IF ~ok
            THEN /\ Fail(s, Result(FALSE, "Login failed", NoUser))
                 /\ UNCHANGED session
            ELSE /\ session' = saveSession(session, calls[s].user.id)
                 /\ calls' = [calls EXCEPT ![s].pc = "log"]
    /\ UNCHANGED <<users, logs, lastLogin>>
    /\ UNCHANGED mediaVars

\* await addLog({type: 'login', ...}); return {success: true, ..., user}
LoginAddLog(s) ==
    /\ calls[s].op = "login" /\ calls[s].pc = "log"
    /\ \E ok \in BOOLEAN :
         /\ Request(ok)
         /\ IF ~ok
            THEN /\ Fail(s, Result(FALSE, "Login failed", NoUser))
                 /\ UNCHANGED <<logs, lastLogin>>
            ELSE /\ logs' = addLog(logs, LoginLogEntry(calls[s].username, calls[s].user.id))
                 /\ Finish(s, Result(TRUE, "Login successful", calls[s].user))
                 /\ lastLogin' = calls[s].user.id
    /\ UNCHANGED <<users, session>>
    /\ UNCHANGED mediaVars

(* ---------------------------- logout ----------------------------------- *)

StartLogout(s) ==
    /\ Settled
    /\ CanLog
    /\ Begin(s, NewCall("logout", "read", "", "", ""))
    /\ lastLogin' = 0
    /\ UNCHANGED <<users, session, logs, faults>>
    /\ UNCHANGED mediaVars

\* logout going on to clearSession without the addLog
LogoutReadSkipsLog(s) ==
    /\ calls[s].op = "logout" /\ calls[s].pc = "read"
    /\ \E ok \in BOOLEAN :
         /\ Request(ok)
         /\ IF ~ok
            THEN Fail(s, Threw)
            ELSE calls' = [calls EXCEPT ![s].sess = getSession(session),
                                        ![s].pc = "clear"]
    /\ UNCHANGED <<users, session, logs, lastLogin>>
    /\ UNCHANGED mediaVars

\* const session = await getSession(); if (session) ...
LogoutRead(s) ==
    /\ calls[s].op = "logout" /\ calls[s].pc = "read"
    /\ \E ok \in BOOLEAN :
         /\ Request(ok)
         /\ IF ~ok
            THEN Fail(s, Threw)
            ELSE calls' = [calls EXCEPT
                             ![s].sess = getSession(session),
                             ![s].pc = IF getSession(session) # NoSession
                                       THEN "log" ELSE "clear"]
    /\ UNCHANGED <<users, session, logs, lastLogin>>
    /\ UNCHANGED mediaVars

\* await addLog({type: 'logout', ..., metadata: {userId: session.userId}})
LogoutAddLog(s) ==
    /\ calls[s].op = "logout" /\ calls[s].pc = "log"
    /\ \E ok \in BOOLEAN :
         /\ Request(ok)
         /\ IF ~ok
            THEN /\ Fail(s, Threw)
                 /\ UNCHANGED logs
            ELSE /\ logs' = addLog(logs, LogoutLogEntry(calls[s].sess))
                 /\ calls' = [calls EXCEPT ![s].pc = "clear"]
    /\ UNCHANGED <<users, session, lastLogin>>
    /\ UNCHANGED mediaVars

\* await clearSession()
LogoutClear(s) ==
    /\ calls[s].op = "logout" /\ calls[s].pc = "clear"
    /\ \E ok \in BOOLEAN :
         /\ Request(ok)
         /\ IF ~ok
            THEN /\ Fail(s, Threw)
                 /\ UNCHANGED session
            ELSE /\ session' = clearSession(session)
                 /\ Finish(s, Result(TRUE, "", NoUser))
    /\ UNCHANGED <<users, logs, lastLogin>>
    /\ UNCHANGED mediaVars

(* ---------------------------- getCurrentUser --------------------------- *)

StartGetCurrentUser(s) ==
    /\ Settled
    /\ Begin(s, NewCall("getCurrentUser", "read", "", "", ""))
    /\ UNCHANGED <<users, session, logs, lastLogin, faults>>
    /\ UNCHANGED mediaVars

\* const session = await getSession(); if (!session) return null
GetCurrentUserRead(s) ==
    /\ calls[s].op = "getCurrentUser" /\ calls[s].pc = "read"
    /\ \E ok \in BOOLEAN :
         /\ Request(ok)
         /\ IF ~ok
            THEN Fail(s, Result(FALSE, "", NoUser))
            ELSE IF getSession(session) = NoSession
            THEN Finish(s, Result(FALSE, "", NoUser))
            ELSE calls' = [calls EXCEPT ![s].sess = getSession(session), ![s].pc = "get"]
    /\ UNCHANGED <<users, session, logs, lastLogin>>
    /\ UNCHANGED mediaVars

\* getUserById awaited outside the try block
GetCurrentUserGetUncaught(s) ==
    /\ calls[s].op = "getCurrentUser" /\ calls[s].pc = "get"
    /\ \E ok \in BOOLEAN :
         /\ Request(ok)
         /\ IF ~ok
            THEN Fail(s, Threw)
            ELSE Finish(s, Result(getUserById(users, calls[s].sess) # NoUser, "",
                                  getUserById(users, calls[s].sess)))
    /\ UNCHANGED <<users, session, logs, lastLogin>>
    /\ UNCHANGED mediaVars

\* const user = await getUserById(session.userId); return user || null
GetCurrentUserGet(s) ==
    /\ calls[s].op = "getCurrentUser" /\ calls[s].pc = "get"
    /\ \E ok \in BOOLEAN :
         /\ Request(ok)
         /\ IF ~ok
            THEN Fail(s, Result(FALSE, "", NoUser))
            ELSE Finish(s, Result(getUserById(users, calls[s].sess) # NoUser, "",
                                  getUserById(users, calls[s].sess)))
    /\ UNCHANGED <<users, session, logs, lastLogin>>
    /\ UNCHANGED mediaVars

(* ---------------------------- isAuthenticated -------------------------- *)

StartIsAuthenticated(s) ==
    /\ Settled
    /\ Begin(s, NewCall("isAuthenticated", "read", "", "", ""))
    /\ UNCHANGED <<users, session, logs, lastLogin, faults>>
    /\ UNCHANGED mediaVars

\* isAuthenticated resolving the session to its user
IsAuthenticatedReadChecksUser(s) ==
    /\ calls[s].op = "isAuthenticated" /\ calls[s].pc = "read"
    /\ \E ok \in BOOLEAN :
         /\ Request(ok)
         /\ IF ~ok
            THEN Fail(s, Threw)
            ELSE Finish(s, Result(getUserById(users, getSession(session)) # NoUser,
                                  "", NoUser))
    /\ UNCHANGED <<users, session, logs, lastLogin>>
    /\ UNCHANGED mediaVars

\* const session = await getSession(); return !!session
IsAuthenticatedRead(s) ==
    /\ calls[s].op = "isAuthenticated" /\ calls[s].pc = "read"
    /\ \E ok \in BOOLEAN :
         /\ Request(ok)
         /\ IF ~ok
            THEN Fail(s, Threw)
            ELSE Finish(s, Result(getSession(session) # NoSession, "", NoUser))
    /\ UNCHANGED <<users, session, logs, lastLogin>>
    /\ UNCHANGED mediaVars

(* ---------------------------- media values ------------------------- *)

\* the characters String.prototype.trim() strips
Whitespace == {" "}

\* text.trim(), texts being sequences of characters
RECURSIVE TrimStart(_)
TrimStart(text) ==
    IF text # <<>> /\ Head(text) \in Whitespace THEN TrimStart(Tail(text)) ELSE text

RECURSIVE TrimEnd(_)
TrimEnd(text) ==
    IF text # <<>> /\ text[Len(text)] \in Whitespace
    THEN TrimEnd(SubSeq(text, 1, Len(text) - 1))
    ELSE text

Trim(text) == TrimEnd(TrimStart(text))

\* what the comment box and the caption box may hold
Texts == {<<" ">>, <<" ", "h", "i", " ">>}
Captions == {<<" ">>, <<"H", "i">>}

\* `local://${publicId}` and the secure_url of the remote host
LocalUrl(publicId) == <<"local://", publicId>>
RemoteUrl(publicId) == <<"https://", publicId>>
NoUrl == <<"", 0>>

\* url.startsWith('local://') and url.replace('local://', '')
StartsWithLocal(url) == url[1] = "local://"
StripLocal(url) == url[2]

\* `null` for the page's video, and a video record as Upload builds it
NoVideo ==
    [id |-> 0, userId |-> 0, username |-> "", cloudinaryUrl |-> NoUrl,
     caption |-> <<>>, likes |-> 0, views |-> 0, comments |-> <<>>]

\* a video record that is stored with one view already counted
NewVideoViewed(id, user, url, caption) ==
    [id |-> id, userId |-> user.id, username |-> user.username, cloudinaryUrl |-> url,
     caption |-> Trim(caption), likes |-> 0, views |-> 1, comments |-> <<>>]

NewVideo(id, user, url, caption) ==
    [id |-> id, userId |-> user.id, username |-> user.username, cloudinaryUrl |-> url,
     caption |-> Trim(caption), likes |-> 0, views |-> 0, comments |-> <<>>]

\* the comment handleComment builds; its id (crypto.randomUUID()) and its
\* timestamp are read by no code of the handlers and are left out
NewComment(user, text) ==
    [userId |-> user.id, username |-> user.username, text |-> Trim(text)]

(* ---------------------------- media stores ------------------------- *)

\* saveVideo: db.add('videos', video), rejected when the key is stored
VideosConstraintViolated(store, video) == \E v \in store : v.id = video.id

\* updateVideo: db.put('videos', video) inserts or overwrites by key
updateVideo(store, video) == {v \in store : v.id # video.id} \cup {video}

\* deleteVideo: db.delete('videos', id)
deleteVideo(store, id) == {v \in store : v.id # id}

\* allVideos.find(v => v.id === videoId)
FindVideo(store, id) ==
    IF \E v \in store : v.id = id THEN CHOOSE v \in store : v.id = id ELSE NoVideo

\* saveVideoBlob: db.put('videoBlobs', blob, publicId)
saveVideoBlob(store, publicId, blob) ==
    {b \in store : b.publicId # publicId} \cup {[publicId |-> publicId, blob |-> blob]}

\* getVideoBlob: db.get('videoBlobs', publicId); 0 stands for undefined
NoBlob == 0
getVideoBlob(store, publicId) ==
    IF \E b \in store : b.publicId = publicId
    THEN (CHOOSE b \in store : b.publicId = publicId).blob
    ELSE NoBlob

\* deleteVideoBlob: db.delete('videoBlobs', publicId)
deleteVideoBlob(store, publicId) == {b \in store : b.publicId # publicId}

UploadLogEntry(caption, video) ==
    [type |-> "upload", message |-> <<"Uploaded video:", caption>>,
     metadata |-> <<video.id>>]
ViewLogEntry(video) ==
    [type |-> "view", message |-> <<"Watched video:", video.caption>>,
     metadata |-> <<video.id>>]
LikeLogEntry(video, liked) ==
    [type |-> "like",
     message |-> <<IF liked THEN "Unliked video:" ELSE "Liked video:", video.caption>>,
     metadata |-> <<video.id>>]
CommentLogEntry(video) ==
    [type |-> "comment", message |-> <<"Commented on video:", video.caption>>,
     metadata |-> <<video.id>>]
DeleteLogEntry(video) ==
    [type |-> "delete", message |-> <<"Deleted video:", video.caption>>,
     metadata |-> <<video.id>>]

MediaLogs ==
    {i \in 1..Len(logs) :
        logs[i].type \in {"upload", "view", "like", "comment", "delete"}}

(* ---------------------------- media pages -------------------------- *)

\* the state shared by the pages: the user of the auth context, the static
\* upload configuration, the number of fresh identifiers
\* (crypto.randomUUID(), Date.now()) handed out so far, and the number of
\* entries of the pages that the Logs page has cleared so far.  loading and
\* isAuth are the other two state cells of the AuthProvider, pc is the await
\* its refreshUser or logout is parked on and sess the session that function
\* has read; here the provider has settled with nobody logged in
InitApp(isDemoMode) ==
    [user |-> NoUser, isDemoMode |-> isDemoMode, uuids |-> 0, cleared |-> 0,
     loading |-> FALSE, isAuth |-> FALSE, pc |-> "idle", sess |-> NoSession]

\* maxAttempts and the delay unit of the blob-read retry loop
MaxAttempts == 3
RetryDelay == 250
\* the step and the end of the simulated upload progress
ProgressStep == 10
ProgressDone == 100

TaskSlots == {1, 2}
EffectSlots == {1, 2}

MediaSnapshot ==
    [videos |-> videos, videoBlobs |-> videoBlobs, logs |-> logs,
     video |-> watch.video, liked |-> watch.liked, user |-> app.user]
NoMediaSnapshot ==
    [videos |-> {}, videoBlobs |-> {}, logs |-> <<>>,
     video |-> NoVideo, liked |-> FALSE, user |-> NoUser]

\* op/pc: the handler running in the slot and the await it is parked on;
\* videoId, video, liked, text: the values its closure captured and its
\* locals; ran: it got past its guards; blobFault, fault: a request of the
\* handler was rejected; toast: the title of the toast it raised; pre: the
\* stores and page state when it started; prev: for a like handler, the
\* handler that had settled just before it started
NoSettled == [op |-> "none", ok |-> FALSE, liked |-> FALSE, videos |-> {}]

IdleTask ==
    [op |-> "none", pc |-> "idle", videoId |-> 0, video |-> NoVideo, liked |-> FALSE,
     text |-> <<>>, ran |-> FALSE, blobFault |-> FALSE, fault |-> FALSE, toast |-> "",
     pre |-> NoMediaSnapshot, prev |-> NoSettled]

ActiveTasks == {t \in TaskSlots : tasks[t].pc \notin {"idle", "done"}}
FreeTasks == TaskSlots \ ActiveTasks

\* the handler whose record is still kept: what it was, whether it ran to
\* its end with no request rejected, and the videos store when it started
LastSettled ==
    LET settled == {t \in TaskSlots : tasks[t].pc = "done"} IN
    IF settled = {} THEN NoSettled
    ELSE LET c == tasks[Min(settled)] IN
         [op |-> c.op, ok |-> c.ran /\ ~c.fault, liked |-> c.liked, videos |-> c.pre.videos]

NewTask(op, pc) == [IdleTask EXCEPT !.op = op, !.pc = pc, !.pre = MediaSnapshot]

\* the records of settled handlers are kept until the user acts again
ClearedTasks == [u \in TaskSlots |-> IF u \in ActiveTasks THEN tasks[u] ELSE IdleTask]

BeginTask(t, task) ==
    /\ FreeTasks # {}
    /\ t = Min(FreeTasks)
    /\ tasks' = [ClearedTasks EXCEPT ![t] = task]

\* the handler settles, having got past its guards (ran) or not
EndTask(t, ran, toast) ==
    tasks' = [tasks EXCEPT ![t].pc = "done", ![t].ran = ran, ![t].toast = toast]
\* a request of the handler was rejected: its catch block, if any, runs
FailTask(t, toast) ==
    tasks' = [tasks EXCEPT ![t].pc = "done", ![t].ran = TRUE, ![t].fault = TRUE,
                           ![t].toast = toast]

\* no handler is in flight and no upload is running
Quiet == ActiveTasks = {} /\ upload.pc = "idle"

\* a handler that may append to the log store starts only while the entries
\* stored or cleared, those in flight and the rejected requests leave room
\* for one more
CanMediaLog ==
    Cardinality(MediaLogs) + app.cleared + Cardinality(ActiveTasks)
        + (IF upload.pc = "idle" THEN 0 ELSE 1) + faults < MaxMediaLogs

\* pc: where handleUpload and the ingest it awaits are parked; uploading,
\* progress: the state of the page; file, caption: the form; response: the
\* secure_url the ingest resolved with; video: the record built from it;
\* toast: the title of the toast the handler raised; xhr: how the request to
\* the remote host ended
IdleUpload ==
    [pc |-> "idle", uploading |-> FALSE, progress |-> 0, file |-> 0, caption |-> <<>>,
     publicId |-> 0, response |-> NoUrl, video |-> NoVideo, toast |-> "", xhr |-> "none"]

\* the handler settles with a toast: finally { setUploading(false) }
EndUpload(toast) == [IdleUpload EXCEPT !.toast = toast]

(* ---------------------------- playback resolution ---------------------- *)

\* one run of the effect of Watch that resolves video.cloudinaryUrl:
\* attempt, reads, delays: the loop counter, the blob reads made and the
\* delays waited; url: the objectUrl of its closure; cleaned: its cleanup
\* has run; outcome: the branch it ended in; toast: the toast it raised
IdleEffect ==
    [pc |-> "idle", publicId |-> 0, attempt |-> 0, reads |-> 0, delays |-> <<>>,
     url |-> "none", cleaned |-> FALSE, outcome |-> "none", toast |-> ""]

\* resolveLocalUrl() up to its first await
NewEffect(video) ==
    IF StartsWithLocal(video.cloudinaryUrl)
    THEN [IdleEffect EXCEPT !.pc = "read", !.publicId = StripLocal(video.cloudinaryUrl),
                            !.attempt = 1]
    ELSE [IdleEffect EXCEPT !.pc = "done", !.outcome = "direct"]

\* return () => { if (objectUrl) URL.revokeObjectURL(objectUrl) }
Cleanup(e) ==
    IF e.pc = "idle" \/ e.cleaned THEN e
    ELSE [e EXCEPT !.cleaned = TRUE,
                   !.url = IF e.url = "live" THEN "revoked" ELSE e.url]

CleanedEffects == [e \in EffectSlots |-> Cleanup(effects[e])]
FreeEffects ==
    {e \in EffectSlots :
        \/ CleanedEffects[e].pc = "idle"
        \/ CleanedEffects[e].pc = "done" /\ CleanedEffects[e].cleaned}

\* setVideo(video) on the mounted page: the effect of the previous render
\* is cleaned up and the effect runs again
\* (next: the page state with the other state setters of the handler applied)
SetVideo(video, next) ==
    IF watch.mounted
    THEN /\ FreeEffects # {}
         /\ watch' = [next EXCEPT !.video = video]
         /\ effects' = [CleanedEffects EXCEPT ![Min(FreeEffects)] = NewEffect(video)]
    ELSE UNCHANGED <<watch, effects>>

\* blob = await getVideoBlob(publicId) and what follows up to the next await
EffectRead(e) ==
    /\ effects[e].pc = "read"
    /\ \E ok \in BOOLEAN :
         /\ Request(ok)
         /\ LET blob == getVideoBlob(videoBlobs, effects[e].publicId)
            IN  IF ~ok
                THEN /\ effects' = [effects EXCEPT ![e].pc = "done", ![e].outcome = "error"]
                     /\ watch' = IF watch.mounted
                                 THEN [watch EXCEPT !.videoError = TRUE] ELSE watch
                ELSE IF blob # NoBlob
                THEN /\ effects' = [effects EXCEPT
                                      ![e].pc = "done", ![e].outcome = "resolved",
                                      ![e].reads = @ + 1, ![e].url = "live"]
                     /\ watch' = IF watch.mounted
                                 THEN [watch EXCEPT !.videoError = FALSE] ELSE watch
                ELSE /\ effects' = [effects EXCEPT
                                      ![e].pc = "wait", ![e].reads = @ + 1,
                                      ![e].delays = Append(@, RetryDelay * effects[e].attempt)]
                     /\ UNCHANGED watch
    /\ UNCHANGED <<authVars, logs, videos, videoBlobs, app, upload, tasks>>

\* the retry loop without its retries: the loop is over after the first miss
EffectWaitGivesUp(e) ==
    /\ effects[e].pc = "wait"
    /\ effects' = [effects EXCEPT ![e].pc = "done", ![e].outcome = "unavailable",
                                  ![e].toast = "Video not available"]
    /\ watch' = IF watch.mounted THEN [watch EXCEPT !.videoError = TRUE] ELSE watch
    /\ UNCHANGED <<authVars, logs, faults, videos, videoBlobs, app, upload, tasks>>

\* the timer of the retry delay fires: next attempt, or the loop is over
EffectWait(e) ==
    /\ effects[e].pc = "wait"
    /\ IF effects[e].attempt < MaxAttempts
       THEN /\ effects' = [effects EXCEPT ![e].pc = "read", ![e].attempt = @ + 1]
            /\ UNCHANGED watch
       ELSE /\ effects' = [effects EXCEPT ![e].pc = "done", ![e].outcome = "unavailable",
                                          ![e].toast = "Video not available"]
            /\ watch' = IF watch.mounted
                        THEN [watch EXCEPT !.videoError = TRUE] ELSE watch
    /\ UNCHANGED <<authVars, logs, faults, videos, videoBlobs, app, upload, tasks>>

(* ---------------------------- Watch page ------------------------------- *)

Unmounted ==
    [mounted |-> FALSE, videoId |-> 0, video |-> NoVideo, liked |-> FALSE,
     loading |-> TRUE, videoError |-> FALSE]

\* the buttons of the page are rendered
Rendered == watch.mounted /\ ~watch.loading /\ watch.video # NoVideo

\* setLoading(false) in the finally block of loadVideo
LoadingDone == IF watch.mounted THEN [watch EXCEPT !.loading = FALSE] ELSE watch

\* the route changes to /watch/:videoId from another page: Watch mounts and
\* its effect calls loadVideo()
OpenWatch(t) ==
    \E id \in VideoIds :
        /\ Quiet
        /\ ~watch.mounted
        /\ CanMediaLog
        /\ watch' = [Unmounted EXCEPT !.mounted = TRUE, !.videoId = id]
        /\ BeginTask(t, [NewTask("load", "getAll") EXCEPT !.videoId = id])
        /\ upload' = IdleUpload
        /\ UNCHANGED <<authVars, logs, faults, videos, videoBlobs, app, effects>>

\* the route changes to another video while Watch stays mounted ('Up Next',
\* history navigation): the effect on [videoId] calls loadVideo()
NextVideo(t, id) ==
    /\ watch.mounted
    /\ id # watch.videoId
    /\ CanMediaLog
    /\ watch' = [watch EXCEPT !.videoId = id]
    /\ BeginTask(t, [NewTask("load", "getAll") EXCEPT !.videoId = id])
    /\ UNCHANGED <<authVars, logs, faults, videos, videoBlobs, app, upload, effects>>

ChangeVideo(t) == \E id \in VideoIds : Quiet /\ NextVideo(t, id)

\* the route changes to another page: Watch unmounts, the cleanup of its
\* effect runs
LeaveWatch ==
    /\ watch.mounted
    /\ watch' = Unmounted
    /\ effects' = CleanedEffects
    /\ tasks' = ClearedTasks
    /\ UNCHANGED <<authVars, logs, faults, videos, videoBlobs, app, upload>>

\* loadVideo writing the video back with its view count as read
LoadGetAllNoIncrement(t) ==
    /\ tasks[t].op = "load" /\ tasks[t].pc = "getAll"
    /\ \E ok \in BOOLEAN :
         /\ Request(ok)
         /\ LET currentVideo == FindVideo(videos, tasks[t].videoId)
            IN  IF ~ok
                THEN FailTask(t, "") /\ watch' = LoadingDone
                ELSE IF currentVideo = NoVideo
                THEN EndTask(t, FALSE, "") /\ watch' = LoadingDone
                ELSE /\ tasks' = [tasks EXCEPT ![t].pc = "put", ![t].video = currentVideo]
                     /\ UNCHANGED watch
    /\ UNCHANGED <<authVars, logs, videos, videoBlobs, app, upload, effects>>

\* const allVideos = await getAllVideos(); currentVideo = allVideos.find(...)
LoadGetAll(t) ==
    /\ tasks[t].op = "load" /\ tasks[t].pc = "getAll"
    /\ \E ok \in BOOLEAN :
         /\ Request(ok)
         /\ LET currentVideo == FindVideo(videos, tasks[t].videoId)
            IN  IF ~ok
                THEN FailTask(t, "") /\ watch' = LoadingDone
                ELSE IF currentVideo = NoVideo
                THEN EndTask(t, FALSE, "") /\ watch' = LoadingDone
                ELSE /\ tasks' = [tasks EXCEPT
                                    ![t].pc = "put",
                                    ![t].video = [currentVideo EXCEPT !.views = @ + 1]]
                     /\ UNCHANGED watch
    /\ UNCHANGED <<authVars, logs, videos, videoBlobs, app, upload, effects>>

\* await updateVideo(updatedVideo)
LoadPut(t) ==
    /\ tasks[t].op = "load" /\ tasks[t].pc = "put"
    /\ \E ok \in BOOLEAN :
         /\ Request(ok)
         /\ IF ~ok
            THEN FailTask(t, "") /\ watch' = LoadingDone /\ UNCHANGED videos
            ELSE /\ videos' = updateVideo(videos, tasks[t].video)
                 /\ tasks' = [tasks EXCEPT ![t].pc = "log"]
                 /\ UNCHANGED watch
    /\ UNCHANGED <<authVars, logs, videoBlobs, app, upload, effects>>

\* await addLog({type: 'view', ...}); setVideo(updatedVideo); setLoading(false)
LoadAddLog(t) ==
    /\ tasks[t].op = "load" /\ tasks[t].pc = "log"
    /\ \E ok \in BOOLEAN :
         /\ Request(ok)
         /\ IF ~ok
            THEN FailTask(t, "") /\ watch' = LoadingDone /\ UNCHANGED <<logs, effects>>
            ELSE /\ logs' = addLog(logs, ViewLogEntry(tasks[t].video))
                 /\ SetVideo(tasks[t].video, LoadingDone)
                 /\ EndTask(t, TRUE, "")
    /\ UNCHANGED <<authVars, videos, videoBlobs, app, upload>>

\* handleLike up to its first await
BeginLike(t) ==
    /\ Rendered
    /\ CanMediaLog
    /\ IF app.user = NoUser
       THEN BeginTask(t, NewTask("like", "done"))
       ELSE BeginTask(t, [NewTask("like", "put") EXCEPT
                            !.liked = watch.liked,
                            !.prev = LastSettled,
                            !.video = [watch.video EXCEPT
                                         !.likes = IF watch.liked THEN @ - 1 ELSE @ + 1]])
    /\ UNCHANGED <<authVars, logs, faults, videos, videoBlobs, app, upload, watch, effects>>

StartLike(t) == Quiet /\ BeginLike(t)

\* a click on the like button while another handler is parked on an await
StartLikeInFlight(t) == ~Quiet /\ BeginLike(t)

\* a like whose write adds to or takes from the count found in the store
LikePutOnStoredCount(t) ==
    /\ tasks[t].op = "like" /\ tasks[t].pc = "put"
    /\ \E ok \in BOOLEAN :
         /\ Request(ok)
         /\ IF ~ok
            THEN FailTask(t, "") /\ UNCHANGED videos
            ELSE /\ videos' = updateVideo(videos,
                                 [tasks[t].video EXCEPT
                                    !.likes = FindVideo(videos, tasks[t].video.id).likes
                                                + (IF tasks[t].liked THEN -1 ELSE 1)])
                 /\ tasks' = [tasks EXCEPT ![t].pc = "log"]
    /\ UNCHANGED <<authVars, logs, videoBlobs, app, upload, watch, effects>>

\* await updateVideo(updatedVideo)
LikePut(t) ==
    /\ tasks[t].op = "like" /\ tasks[t].pc = "put"
    /\ \E ok \in BOOLEAN :
         /\ Request(ok)
         /\ IF ~ok
            THEN FailTask(t, "") /\ UNCHANGED videos
            ELSE /\ videos' = updateVideo(videos, tasks[t].video)
                 /\ tasks' = [tasks EXCEPT ![t].pc = "log"]
    /\ UNCHANGED <<authVars, logs, videoBlobs, app, upload, watch, effects>>

\* await addLog({type: 'like', ...}); setVideo(updatedVideo); setLiked(!liked)
LikeAddLog(t) ==
    /\ tasks[t].op = "like" /\ tasks[t].pc = "log"
    /\ \E ok \in BOOLEAN :
         /\ Request(ok)
         /\ IF ~ok
            THEN FailTask(t, "") /\ UNCHANGED <<logs, watch, effects>>
            ELSE /\ logs' = addLog(logs, LikeLogEntry(tasks[t].pre.video, tasks[t].liked))
                 /\ SetVideo(tasks[t].video, [watch EXCEPT !.liked = ~tasks[t].liked])
                 /\ EndTask(t, TRUE, IF tasks[t].liked THEN "" ELSE "Liked!")
    /\ UNCHANGED <<authVars, videos, videoBlobs, app, upload>>

\* handleComment up to its first await
BeginComment(t) ==
    \E text \in Texts :
        /\ Rendered
        /\ CanMediaLog
        /\ IF app.user = NoUser \/ Trim(text) = <<>>
           THEN BeginTask(t, [NewTask("comment", "done") EXCEPT !.text = text])
           ELSE BeginTask(t, [NewTask("comment", "put") EXCEPT
                                !.text = text,
                                !.video = [watch.video EXCEPT
                                             !.comments = Append(@,
                                                 NewComment(app.user, text))]])
        /\ UNCHANGED <<authVars, logs, faults, videos, videoBlobs, app, upload, watch, effects>>

StartComment(t) == Quiet /\ BeginComment(t)

\* a comment posted while another handler is parked on an await
StartCommentInFlight(t) == ~Quiet /\ BeginComment(t)

\* await updateVideo(updatedVideo)
CommentPut(t) ==
    /\ tasks[t].op = "comment" /\ tasks[t].pc = "put"
    /\ \E ok \in BOOLEAN :
         /\ Request(ok)
         /\ IF ~ok
            THEN FailTask(t, "") /\ UNCHANGED videos
            ELSE /\ videos' = updateVideo(videos, tasks[t].video)
                 /\ tasks' = [tasks EXCEPT ![t].pc = "log"]
    /\ UNCHANGED <<authVars, logs, videoBlobs, app, upload, watch, effects>>

\* await addLog({type: 'comment', ...}); setVideo(updatedVideo); setComment('')
CommentAddLog(t) ==
    /\ tasks[t].op = "comment" /\ tasks[t].pc = "log"
    /\ \E ok \in BOOLEAN :
         /\ Request(ok)
         /\ IF ~ok
            THEN FailTask(t, "") /\ UNCHANGED <<logs, watch, effects>>
            ELSE /\ logs' = addLog(logs, CommentLogEntry(tasks[t].pre.video))
                 /\ SetVideo(tasks[t].video, watch)
                 /\ EndTask(t, TRUE, "Comment posted!")
    /\ UNCHANGED <<authVars, videos, videoBlobs, app, upload>>

\* handleDelete without the comparison of user.id with video.userId
StartDeleteNoOwnerCheck(t) ==
    \E confirmed \in BOOLEAN :
        /\ Quiet
        /\ Rendered
        /\ CanMediaLog
        /\ IF app.user = NoUser \/ ~confirmed
           THEN BeginTask(t, NewTask("delete", "done"))
           ELSE BeginTask(t, [NewTask("delete",
                                      IF StartsWithLocal(watch.video.cloudinaryUrl)
                                      THEN "blob" ELSE "record")
                                EXCEPT !.video = watch.video, !.ran = TRUE])
        /\ UNCHANGED <<authVars, logs, faults, videos, videoBlobs, app, upload, watch, effects>>

\* handleDelete up to its first await; confirmed: the answer to window.confirm
StartDelete(t) ==
    \E confirmed \in BOOLEAN :
        /\ Quiet
        /\ Rendered
        /\ CanMediaLog
        /\ IF app.user = NoUser
           THEN BeginTask(t, NewTask("delete", "done"))
           ELSE IF app.user.id # watch.video.userId
           THEN BeginTask(t, [NewTask("delete", "done") EXCEPT
                                !.toast = "Permission denied"])
           ELSE IF ~confirmed
           THEN BeginTask(t, NewTask("delete", "done"))
           ELSE BeginTask(t, [NewTask("delete",
                                      IF StartsWithLocal(watch.video.cloudinaryUrl)
                                      THEN "blob" ELSE "record")
                                EXCEPT !.video = watch.video, !.ran = TRUE])
        /\ UNCHANGED <<authVars, logs, faults, videos, videoBlobs, app, upload, watch, effects>>

\* await deleteVideoBlob(publicId) without the try/catch around it: a
\* rejected blob deletion ends the handler in its outer catch block
DeleteBlobUncaught(t) ==
    /\ tasks[t].op = "delete" /\ tasks[t].pc = "blob"
    /\ \E ok \in BOOLEAN :
         /\ Request(ok)
         /\ IF ~ok
            THEN /\ tasks' = [tasks EXCEPT ![t].pc = "done", ![t].blobFault = TRUE,
                                           ![t].toast = "Delete failed"]
                 /\ UNCHANGED videoBlobs
            ELSE /\ videoBlobs' = deleteVideoBlob(videoBlobs,
                                                  StripLocal(tasks[t].video.cloudinaryUrl))
                 /\ tasks' = [tasks EXCEPT ![t].pc = "record"]
    /\ UNCHANGED <<authVars, logs, videos, app, upload, watch, effects>>

\* try { await deleteVideoBlob(publicId) } catch (e) { console.warn(...) }
DeleteBlob(t) ==
    /\ tasks[t].op = "delete" /\ tasks[t].pc = "blob"
    /\ \E ok \in BOOLEAN :
         /\ Request(ok)
         /\ IF ~ok
            THEN /\ tasks' = [tasks EXCEPT ![t].pc = "record", ![t].blobFault = TRUE]
                 /\ UNCHANGED videoBlobs
            ELSE /\ videoBlobs' = deleteVideoBlob(videoBlobs,
                                                  StripLocal(tasks[t].video.cloudinaryUrl))
                 /\ tasks' = [tasks EXCEPT ![t].pc = "record"]
    /\ UNCHANGED <<authVars, logs, videos, app, upload, watch, effects>>

\* await deleteVideo(video.id)
DeleteRecord(t) ==
    /\ tasks[t].op = "delete" /\ tasks[t].pc = "record"
    /\ \E ok \in BOOLEAN :
         /\ Request(ok)
         /\ IF ~ok
            THEN /\ FailTask(t, "Delete failed")
                 /\ UNCHANGED videos
            ELSE /\ videos' = deleteVideo(videos, tasks[t].video.id)
                 /\ tasks' = [tasks EXCEPT ![t].pc = "log"]
    /\ UNCHANGED <<authVars, logs, videoBlobs, app, upload, watch, effects>>

\* await addLog({type: 'delete', ...}); toast(...); navigate('/feed')
DeleteAddLog(t) ==
    /\ tasks[t].op = "delete" /\ tasks[t].pc = "log"
    /\ \E ok \in BOOLEAN :
         /\ Request(ok)
         /\ IF ~ok
            THEN /\ FailTask(t, "Delete failed")
                 /\ UNCHANGED <<logs, watch, effects>>
            ELSE /\ logs' = addLog(logs, DeleteLogEntry(tasks[t].video))
                 /\ watch' = Unmounted
                 /\ effects' = CleanedEffects
                 /\ EndTask(t, TRUE, "Video deleted")
    /\ UNCHANGED <<authVars, videos, videoBlobs, app, upload>>

\* login(user) of the auth context: setUser(user); setIsAuth(true)
ContextLogin ==
    \E u \in users :
        /\ Quiet
        /\ ~watch.mounted
        /\ u # app.user
        /\ app' = [app EXCEPT !.user = u, !.isAuth = TRUE]
        /\ tasks' = ClearedTasks
        /\ upload' = IdleUpload
        /\ UNCHANGED <<authVars, logs, faults, videos, videoBlobs, watch, effects>>

\* refreshUser() after a reload of the application outside the Watch and
\* Upload pages: isAuthenticated() resolved true, the read of getCurrentUser()
\* was rejected and it resolved null, so isAuth is true and user is null
ContextRefresh ==
    /\ Quiet
    /\ ~watch.mounted
    /\ session # {}
    /\ app.user # NoUser
    /\ Request(FALSE)
    /\ app' = [app EXCEPT !.user = NoUser]
    /\ tasks' = ClearedTasks
    /\ upload' = IdleUpload
    /\ UNCHANGED <<authVars, logs, videos, videoBlobs, watch, effects>>

(* ---------------------------- Upload page ------------------------------ *)

\* what the remote host may answer to the XHR
XhrOutcomes == {"ok", "status", "parse", "error", "abort"}

\* handleUpload up to the call of uploadVideoToCloudinary
StartUpload ==
    \E file \in FileSizes, caption \in Captions :
        /\ Quiet
        /\ ~watch.mounted
        /\ app.user # NoUser
        /\ app.uuids < MaxVideoId
        /\ CanMediaLog
        /\ IF Trim(caption) = <<>>
           THEN upload' = EndUpload("Caption required")
           ELSE upload' = [IdleUpload EXCEPT
                             !.pc = IF app.isDemoMode THEN "tick" ELSE "xhr",
                             !.uploading = TRUE, !.file = file, !.caption = caption]
        /\ tasks' = ClearedTasks
        /\ UNCHANGED <<authVars, logs, faults, videos, videoBlobs, app, watch, effects>>

\* a simulated upload whose interval is cleared once the progress is past
\* 100
UploadTickPastDone ==
    /\ upload.pc = "tick"
    /\ upload' = [upload EXCEPT
                    !.progress = @ + ProgressStep,
                    !.pc = IF upload.progress + ProgressStep > ProgressDone
                           THEN "metadata" ELSE "tick"]
    /\ UNCHANGED <<authVars, logs, faults, videos, videoBlobs, app, watch, tasks, effects>>

\* mockUpload: one tick of setInterval; at 100 the interval is cleared and
\* the <video> element for the metadata is created
UploadTick ==
    /\ upload.pc = "tick"
    /\ upload' = [upload EXCEPT
                    !.progress = @ + ProgressStep,
                    !.pc = IF upload.progress + ProgressStep >= ProgressDone
                           THEN "metadata" ELSE "tick"]
    /\ UNCHANGED <<authVars, logs, faults, videos, videoBlobs, app, watch, tasks, effects>>

\* video.onloadedmetadata: video.currentTime = 0.1
UploadMetadata ==
    /\ upload.pc = "metadata"
    /\ upload' = [upload EXCEPT !.pc = "seeked"]
    /\ UNCHANGED <<authVars, logs, faults, videos, videoBlobs, app, watch, tasks, effects>>

\* video.onseeked up to its await: thumbnail, publicId = `local_${Date.now()}`
UploadSeeked ==
    /\ upload.pc = "seeked"
    /\ upload' = [upload EXCEPT !.pc = "saveBlob", !.publicId = app.uuids + 1]
    /\ app' = [app EXCEPT !.uuids = @ + 1]
    /\ UNCHANGED <<authVars, logs, faults, videos, videoBlobs, watch, tasks, effects>>

\* try { await saveVideoBlob(publicId, file) } catch (e) { console.warn(...) };
\* resolve({secure_url: `local://${publicId}`, ...}); the video record is built
UploadSaveBlob ==
    /\ upload.pc = "saveBlob"
    /\ \E ok \in BOOLEAN :
         /\ Request(ok)
         /\ videoBlobs' = IF ok THEN saveVideoBlob(videoBlobs, upload.publicId, upload.file)
                          ELSE videoBlobs
    /\ upload' = [upload EXCEPT
                    !.pc = "saveVideo",
                    !.response = LocalUrl(upload.publicId),
                    !.video = NewVideo(upload.publicId, app.user,
                                       LocalUrl(upload.publicId), upload.caption)]
    /\ UNCHANGED <<authVars, logs, videos, app, watch, tasks, effects>>

\* the remote upload that takes every 'load' event with a body it can read
\* for a success, whatever the status
UploadXhrIgnoresStatus ==
    /\ upload.pc = "xhr"
    /\ \E outcome \in XhrOutcomes :
         IF outcome \in {"ok", "status"}
         THEN /\ upload' = [upload EXCEPT
                              !.pc = "saveVideo",
                              !.xhr = outcome,
                              !.publicId = app.uuids + 1,
                              !.response = RemoteUrl(app.uuids + 1),
                              !.video = NewVideo(app.uuids + 1, app.user,
                                                 RemoteUrl(app.uuids + 1), upload.caption)]
              /\ app' = [app EXCEPT !.uuids = @ + 1]
         ELSE /\ upload' = [EndUpload("Upload failed") EXCEPT !.xhr = outcome]
              /\ UNCHANGED app
    /\ UNCHANGED <<authVars, logs, faults, videos, videoBlobs, watch, tasks, effects>>

\* the remote upload settles: "ok", a load event with status 200 and a body
\* that parses and carries secure_url, resolves; a load event with another
\* status ("status") or with a body that does not ("parse"), an error event
\* and an abort event reject, and the catch block of handleUpload runs
UploadXhr ==
    /\ upload.pc = "xhr"
    /\ \E outcome \in XhrOutcomes :
         IF outcome = "ok"
         THEN /\ upload' = [upload EXCEPT
                              !.pc = "saveVideo",
                              !.xhr = outcome,
                              !.publicId = app.uuids + 1,
                              !.response = RemoteUrl(app.uuids + 1),
                              !.video = NewVideo(app.uuids + 1, app.user,
                                                 RemoteUrl(app.uuids + 1), upload.caption)]
              /\ app' = [app EXCEPT !.uuids = @ + 1]
         ELSE /\ upload' = [EndUpload("Upload failed") EXCEPT !.xhr = outcome]
              /\ UNCHANGED app
    /\ UNCHANGED <<authVars, logs, faults, videos, videoBlobs, watch, tasks, effects>>

\* await saveVideo(video)
UploadSaveVideo ==
    /\ upload.pc = "saveVideo"
    /\ \E ok \in BOOLEAN :
         /\ Request(ok)
         /\ IF ~ok \/ VideosConstraintViolated(videos, upload.video)
            THEN /\ upload' = EndUpload("Upload failed")
                 /\ UNCHANGED videos
            ELSE /\ videos' = videos \cup {upload.video}
                 /\ upload' = [upload EXCEPT !.pc = "log"]
    /\ UNCHANGED <<authVars, logs, videoBlobs, app, watch, tasks, effects>>

\* await addLog({type: 'upload', ...}); toast({title: 'Upload successful!'})
UploadAddLog ==
    /\ upload.pc = "log"
    /\ \E ok \in BOOLEAN :
         /\ Request(ok)
         /\ IF ~ok
            THEN /\ upload' = EndUpload("Upload failed")
                 /\ UNCHANGED logs
            ELSE /\ logs' = addLog(logs, UploadLogEntry(upload.caption, upload.video))
                 /\ upload' = EndUpload("Upload successful!")
    /\ UNCHANGED <<authVars, videos, videoBlobs, app, watch, tasks, effects>>

(* ---------------------------- specifications --------------------------- *)

\* a fresh database: upgrade() has created the stores, all of them empty
Init ==
    /\ users = {}
    /\ session = {}
    /\ logs = <<>>
    /\ calls = [s \in Slots |-> IdleCall]
    /\ lastLogin = 0
    /\ faults = 0
    /\ videos = {}
    /\ videoBlobs = {}
    /\ app = InitApp(TRUE)
    /\ upload = IdleUpload
    /\ watch = Unmounted
    /\ tasks = [t \in TaskSlots |-> IdleTask]
    /\ effects = [e \in EffectSlots |-> IdleEffect]

Next ==
    \E s \in Slots :
        \/ StartSignup(s)
        \/ SignupLookup(s)
        \/ SignupCreate(s)
        \/ SignupAddLog(s)
        \/ StartLogin(s)
        \/ LoginLookup(s)
        \/ LoginSave(s)
        \/ LoginAddLog(s)
        \/ StartLogout(s)
        \/ LogoutRead(s)
        \/ LogoutAddLog(s)
        \/ LogoutClear(s)
        \/ StartGetCurrentUser(s)
        \/ GetCurrentUserRead(s)
        \/ GetCurrentUserGet(s)
        \/ StartIsAuthenticated(s)
        \/ IsAuthenticatedRead(s)

Spec == Init /\ [][Next]_vars

\* The session readers as functions of the store contents: the stores hold
\* any set of users the unique indexes admit and any set of session records.
StoredUser(i) ==
    [id |-> i, username |-> DemoNames[i], email |-> DemoEmails[i],
     passwordHash |-> BcryptHash("pw1", 1)]

InitStore ==
    /\ users \in {{StoredUser(i) : i \in I} : I \in SUBSET UserIds}
    /\ session \in SUBSET UserIds
    /\ logs = <<>>
    /\ calls = [s \in Slots |-> IdleCall]
    /\ lastLogin = 0
    /\ faults = 0
    /\ videos = {}
    /\ videoBlobs = {}
    /\ app = InitApp(TRUE)
    /\ upload = IdleUpload
    /\ watch = Unmounted
    /\ tasks = [t \in TaskSlots |-> IdleTask]
    /\ effects = [e \in EffectSlots |-> IdleEffect]

NextStore ==
    \E s \in Slots :
        \/ StartGetCurrentUser(s)
        \/ GetCurrentUserRead(s)
        \/ GetCurrentUserGet(s)
        \/ StartIsAuthenticated(s)
        \/ IsAuthenticatedRead(s)

SpecStore == InitStore /\ [][NextStore]_vars

\* Signups only, a second one being allowed to start while the first is
\* parked on an await.
NextRace ==
    \E s \in Slots :
        \/ StartSignup(s)
        \/ StartSignupInFlight(s)
        \/ SignupLookup(s)
        \/ SignupCreate(s)
        \/ SignupAddLog(s)

SpecRace == Init /\ [][NextRace]_vars

\* clearLogs of the Logs page, a protected route: the handler starts ...
StartClearLogs(t) ==
    /\ Quiet
    /\ ~watch.mounted
    /\ app.user # NoUser
    /\ BeginTask(t, NewTask("clearLogs", "clear"))
    /\ upload' = IdleUpload
    /\ UNCHANGED <<authVars, logs, faults, videos, videoBlobs, app, watch, effects>>

\* ... and db.clear('logs') settles: every entry is gone and the page shows
\* an empty list under 'Logs Cleared', or the request was rejected and the
\* catch block raises 'Error'
ClearLogs(t) ==
    /\ tasks[t].op = "clearLogs" /\ tasks[t].pc = "clear"
    /\ \E ok \in BOOLEAN :
         /\ Request(ok)
         /\ IF ok
            THEN /\ logs' = <<>>
                 /\ app' = [app EXCEPT !.cleared = @ + Cardinality(MediaLogs)]
                 /\ EndTask(t, TRUE, "Logs Cleared")
            ELSE /\ FailTask(t, "Error")
                 /\ UNCHANGED <<logs, app>>
    /\ UNCHANGED <<authVars, videos, videoBlobs, upload, watch, effects>>

(* ---------------------------- auth context -------------------------- *)

\* what a protected route shows: the spinner while the context is loading,
\* the redirect to /login when isAuth is false, its page otherwise
ProtectedRoute ==
    IF app.loading THEN "spinner"
    ELSE IF ~app.isAuth THEN "navigate"
    ELSE "children"

\* refreshUser, run by the provider's effect on mount:
\* const authenticated = await isAuthenticated(); setIsAuth(authenticated);
\* the catch block and the finally block
RefreshIsAuthenticated ==
    /\ app.pc = "isAuthenticated"
    /\ \E ok \in BOOLEAN :
         /\ Request(ok)
         /\ app' = IF ~ok
                   THEN [app EXCEPT !.user = NoUser, !.isAuth = FALSE,
                                    !.loading = FALSE, !.pc = "idle"]
                   ELSE IF getSession(session) = NoSession
                   THEN [app EXCEPT !.isAuth = FALSE, !.user = NoUser,
                                    !.loading = FALSE, !.pc = "idle"]
                   ELSE [app EXCEPT !.isAuth = TRUE, !.pc = "getSession"]
    /\ UNCHANGED <<authVars, logs, videos, videoBlobs, upload, watch, tasks, effects>>

\* getCurrentUser: const session = await getSession(); if (!session) return
\* null; its catch block returns null
RefreshGetSession ==
    /\ app.pc = "getSession"
    /\ \E ok \in BOOLEAN :
         /\ Request(ok)
         /\ app' = IF ok /\ getSession(session) # NoSession
                   THEN [app EXCEPT !.sess = getSession(session), !.pc = "getUserById"]
                   ELSE [app EXCEPT !.user = NoUser, !.loading = FALSE, !.pc = "idle"]
    /\ UNCHANGED <<authVars, logs, videos, videoBlobs, upload, watch, tasks, effects>>

\* getCurrentUser: const user = await getUserById(session.userId); return
\* user || null; then setUser(currentUser) and setLoading(false)
RefreshGetUserById ==
    /\ app.pc = "getUserById"
    /\ \E ok \in BOOLEAN :
         /\ Request(ok)
         /\ app' = [app EXCEPT
                      !.user = IF ok THEN getUserById(users, app.sess) ELSE NoUser,
                      !.sess = NoSession, !.loading = FALSE, !.pc = "idle"]
    /\ UNCHANGED <<authVars, logs, videos, videoBlobs, upload, watch, tasks, effects>>

\* the Navbar of a protected page: handleLogout calls the context's logout,
\* which awaits logout() of the auth module
StartContextLogout ==
    /\ ProtectedRoute = "children"
    /\ app.pc = "idle"
    /\ Cardinality(SessionLogs) < MaxSessionLogs
    /\ app' = [app EXCEPT !.pc = "logoutRead"]
    /\ UNCHANGED <<authVars, logs, faults, videos, videoBlobs, upload, watch, tasks, effects>>

\* logout: const session = await getSession(); a rejection leaves the
\* context's logout rejected before its setUser and setIsAuth
ContextLogoutRead ==
    /\ app.pc = "logoutRead"
    /\ \E ok \in BOOLEAN :
         /\ Request(ok)
         /\ app' = IF ~ok THEN [app EXCEPT !.pc = "idle"]
                   ELSE [app EXCEPT !.sess = getSession(session),
                                    !.pc = IF getSession(session) # NoSession
                                           THEN "logoutLog" ELSE "logoutClear"]
    /\ UNCHANGED <<authVars, logs, videos, videoBlobs, upload, watch, tasks, effects>>

\* logout: await addLog({type: 'logout', ...})
ContextLogoutAddLog ==
    /\ app.pc = "logoutLog"
    /\ \E ok \in BOOLEAN :
         /\ Request(ok)
         /\ IF ~ok
            THEN /\ app' = [app EXCEPT !.sess = NoSession, !.pc = "idle"]
                 /\ UNCHANGED logs
            ELSE /\ logs' = addLog(logs, LogoutLogEntry(app.sess))
                 /\ app' = [app EXCEPT !.pc = "logoutClear"]
    /\ UNCHANGED <<authVars, videos, videoBlobs, upload, watch, tasks, effects>>

\* the context's logout with the session left in the store
ContextLogoutKeepsSession ==
    /\ app.pc = "logoutClear"
    /\ \E ok \in BOOLEAN :
         /\ Request(ok)
         /\ app' = IF ~ok THEN [app EXCEPT !.sess = NoSession, !.pc = "idle"]
                   ELSE [app EXCEPT !.user = NoUser, !.isAuth = FALSE,
                                    !.sess = NoSession, !.pc = "idle"]
    /\ UNCHANGED <<authVars, logs, videos, videoBlobs, upload, watch, tasks, effects>>

\* logout: await clearSession(); then setUser(null); setIsAuth(false) of the
\* context's logout
ContextLogoutClear ==
    /\ app.pc = "logoutClear"
    /\ \E ok \in BOOLEAN :
         /\ Request(ok)
         /\ IF ~ok
            THEN /\ app' = [app EXCEPT !.sess = NoSession, !.pc = "idle"]
                 /\ UNCHANGED session
            ELSE /\ session' = clearSession(session)
                 /\ app' = [app EXCEPT !.user = NoUser, !.isAuth = FALSE,
                                       !.sess = NoSession, !.pc = "idle"]
    /\ UNCHANGED <<users, calls, lastLogin, logs, videos, videoBlobs, upload, watch,
                   tasks, effects>>

\* The pages: two users have signed up; uploads, the Watch page and its
\* playback effect, the handlers running one at a time.
InitMedia ==
    /\ users = {StoredUser(1), StoredUser(2)}
    /\ session = saveSession(saveSession({}, StoredUser(1).id), StoredUser(2).id)
    /\ logs = <<SignupLogEntry(DemoNames[1]), SignupLogEntry(DemoNames[2])>>
    /\ calls = [s \in Slots |-> IdleCall]
    /\ lastLogin = 0
    /\ faults = 0
    /\ videos = {}
    /\ videoBlobs = {}
    /\ app \in {InitApp(isDemoMode) : isDemoMode \in BOOLEAN}
    /\ upload = IdleUpload
    /\ watch = Unmounted
    /\ tasks = [t \in TaskSlots |-> IdleTask]
    /\ effects = [e \in EffectSlots |-> IdleEffect]

NextMedia ==
    \/ ContextLogin
    \/ ContextRefresh
    \/ StartUpload
    \/ UploadTick
    \/ UploadMetadata
    \/ UploadSeeked
    \/ UploadSaveBlob
    \/ UploadXhr
    \/ UploadSaveVideo
    \/ UploadAddLog
    \/ LeaveWatch
    \/ \E e \in EffectSlots : EffectRead(e) \/ EffectWait(e)
    \/ \E t \in TaskSlots :
        \/ OpenWatch(t)
        \/ ChangeVideo(t)
        \/ LoadGetAll(t)
        \/ LoadPut(t)
        \/ LoadAddLog(t)
        \/ StartLike(t)
        \/ LikePut(t)
        \/ LikeAddLog(t)
        \/ StartComment(t)
        \/ CommentPut(t)
        \/ CommentAddLog(t)
        \/ StartDelete(t)
        \/ DeleteBlob(t)
        \/ DeleteRecord(t)
        \/ DeleteAddLog(t)

SpecMedia == InitMedia /\ [][NextMedia]_vars

\* The Watch page over stored videos, its loads, likes and comments: the
\* videos have been uploaded in demo mode by the first user, every request
\* succeeding, and the logs have been cleared on the Logs page; one of the
\* users is logged in.  Nothing here removes a blob, so no read of the
\* resolution misses and its retry timer is never set.
UploadedVideo(id) == NewVideo(id, StoredUser(1), LocalUrl(id), <<"H", "i">>)

InitWatch ==
    /\ users = {StoredUser(1), StoredUser(2)}
    /\ session = saveSession(saveSession({}, StoredUser(1).id), StoredUser(2).id)
    /\ logs = <<>>
    /\ calls = [s \in Slots |-> IdleCall]
    /\ lastLogin = 0
    /\ faults = 0
    /\ videos = {UploadedVideo(id) : id \in VideoIds}
    /\ videoBlobs = {[publicId |-> id, blob |-> MaxFileSize] : id \in VideoIds}
    /\ app \in {[InitApp(TRUE) EXCEPT !.user = u, !.isAuth = TRUE, !.uuids = MaxVideoId] : u \in users}
    /\ upload = IdleUpload
    /\ watch = Unmounted
    /\ tasks = [t \in TaskSlots |-> IdleTask]
    /\ effects = [e \in EffectSlots |-> IdleEffect]

NextWatch ==
    \/ LeaveWatch
    \/ \E e \in EffectSlots : EffectRead(e)
    \/ \E t \in TaskSlots :
        \/ OpenWatch(t)
        \/ ChangeVideo(t)
        \/ LoadGetAll(t)
        \/ LoadPut(t)
        \/ LoadAddLog(t)
        \/ StartLike(t)
        \/ LikePut(t)
        \/ LikeAddLog(t)
        \/ StartComment(t)
        \/ CommentPut(t)
        \/ CommentAddLog(t)

SpecWatch == InitWatch /\ [][NextWatch]_vars

\* The Watch page over stored videos with a second click on like or a
\* second comment coming while a handler is parked on an await.
NextWatchRace ==
    \/ \E e \in EffectSlots : EffectRead(e)
    \/ \E t \in TaskSlots :
        \/ OpenWatch(t)
        \/ LoadGetAll(t)
        \/ LoadPut(t)
        \/ LoadAddLog(t)
        \/ StartLike(t)
        \/ StartLikeInFlight(t)
        \/ LikePut(t)
        \/ LikeAddLog(t)
        \/ StartComment(t)
        \/ StartCommentInFlight(t)
        \/ CommentPut(t)
        \/ CommentAddLog(t)

SpecWatchRace == InitWatch /\ [][NextWatchRace]_vars

\* The AuthProvider from its mount, over any stored users and sessions, and
\* the logout button of the protected pages.
InitAuthContext ==
    /\ users \in {{StoredUser(i) : i \in I} : I \in SUBSET UserIds}
    /\ session \in SUBSET UserIds
    /\ logs = <<>>
    /\ calls = [s \in Slots |-> IdleCall]
    /\ lastLogin = 0
    /\ faults = 0
    /\ videos = {}
    /\ videoBlobs = {}
    /\ app = [InitApp(TRUE) EXCEPT !.loading = TRUE, !.pc = "isAuthenticated"]
    /\ upload = IdleUpload
    /\ watch = Unmounted
    /\ tasks = [t \in TaskSlots |-> IdleTask]
    /\ effects = [e \in EffectSlots |-> IdleEffect]

NextAuthContext ==
    \/ RefreshIsAuthenticated
    \/ RefreshGetSession
    \/ RefreshGetUserById
    \/ StartContextLogout
    \/ ContextLogoutRead
    \/ ContextLogoutAddLog
    \/ ContextLogoutClear

SpecAuthContext == InitAuthContext /\ [][NextAuthContext]_vars

\* The Upload page in local mode with what the runtime guarantees: a tick of
\* the interval comes while the interval is set and a database request
\* settles; the loadedmetadata and seeked events of the <video> element come
\* only when the browser can read the file, and mockUpload installs no error
\* handler and no timeout, so nothing is assumed about them.
InitUpload == InitMedia /\ app.isDemoMode

NextUpload ==
    \/ ContextLogin
    \/ StartUpload
    \/ UploadTick
    \/ UploadMetadata
    \/ UploadSeeked
    \/ UploadSaveBlob
    \/ UploadSaveVideo
    \/ UploadAddLog

SpecUpload ==
    /\ InitUpload
    /\ [][NextUpload]_vars
    /\ WF_vars(UploadTick)
    /\ WF_vars(UploadSaveBlob)
    /\ WF_vars(UploadSaveVideo)
    /\ WF_vars(UploadAddLog)

\* The pages together with the Logs page and its 'Clear' button.
NextLogs ==
    \/ NextMedia
    \/ \E t \in TaskSlots : StartClearLogs(t) \/ ClearLogs(t)

SpecLogs == InitMedia /\ [][NextLogs]_vars

(* ---------------------------- properties ------------------------------- *)

\* C1: after any sequence of signup, login and logout calls the session
\* store holds at most one record.
AtMostOneSession == Cardinality(session) <= 1

\* C2: after a successful login of u with no later login or logout,
\* getCurrentUser() returns the user record of u.
CurrentUserIsLastLogin ==
    \A s \in Slots :
        LET c == calls[s] IN
        (c.op = "getCurrentUser" /\ c.pc = "done" /\ ~c.fault /\ c.pre.lastLogin # 0)
            => c.ret.user.id = c.pre.lastLogin

\* C3: a login with an existing username and a wrong password and a login
\* with a username that is not stored return the same result, success=false
\* with the message 'Invalid username or password', and neither creates a
\* session nor appends a log entry.
LoginFailuresIndistinguishable ==
    \A s \in Slots :
        LET c == calls[s] IN
        (/\ c.op = "login" /\ c.pc = "done" /\ ~c.fault
         /\ ~\E u \in c.pre.users : /\ u.username = c.username
                                    /\ \E salt \in Salts :
                                         u.passwordHash = BcryptHash(c.password, salt))
            => /\ c.ret = Result(FALSE, "Invalid username or password", NoUser)
               /\ session = c.pre.session
               /\ logs = c.pre.logs

\* a login with a stored username and a wrong password has returned
WrongPasswordLoginReturned ==
    \E s \in Slots :
        LET c == calls[s] IN
        /\ c.op = "login" /\ c.pc = "done" /\ ~c.fault
        /\ \E u \in c.pre.users : /\ u.username = c.username
                                  /\ \A salt \in Salts :
                                        u.passwordHash # BcryptHash(c.password, salt)

\* C4: a login with the username and password of a signup that stored its
\* user succeeds, returns that user and leaves a session record for it.
LoginAfterSignupSucceeds ==
    \A s \in Slots :
        LET c == calls[s] IN
        (/\ c.op = "login" /\ c.pc = "done" /\ ~c.fault
         /\ \E u \in c.pre.users : /\ u.username = c.username
                                   /\ \E salt \in Salts :
                                         u.passwordHash = BcryptHash(c.password, salt))
            => /\ c.ret.kind = "value" /\ c.ret.success
               /\ c.ret.user \in users
               /\ c.ret.user.username = c.username
               /\ c.ret.user.id \in session

\* two users have signed up and the login that has just returned follows
\* the signup of its username directly
LoginRightAfterSignupReturned ==
    \E s \in Slots :
        LET c == calls[s] IN
        /\ c.op = "login" /\ c.pc = "done" /\ ~c.fault /\ c.ret.success
        /\ Cardinality(users) = 2
        /\ Len(c.pre.logs) >= 2
        /\ c.pre.logs[Len(c.pre.logs)] = SignupLogEntry(c.username)
        /\ c.pre.logs[Len(c.pre.logs) - 1].type = "signup"

\* C5: a signup with a username that is already stored fails with
\* 'Username already exists', adds no user, appends no log entry and
\* creates no session.
SignupDuplicateUsernameRejected ==
    \A s \in Slots :
        LET c == calls[s] IN
        (/\ c.op = "signup" /\ c.pc = "done" /\ ~c.fault
         /\ \E u \in c.pre.users : u.username = c.username)
            => /\ c.ret = Result(FALSE, "Username already exists", NoUser)
               /\ users = c.pre.users
               /\ logs = c.pre.logs
               /\ session = c.pre.session

\* a signup with a stored username has returned
DuplicateUsernameSignupReturned ==
    \E s \in Slots :
        LET c == calls[s] IN
        /\ c.op = "signup" /\ c.pc = "done" /\ ~c.fault
        /\ \E u \in c.pre.users : u.username = c.username

\* C6: a signup with a fresh username and an email another user has stored
\* does not throw, returns an "already exists" result and adds no user.
SignupDuplicateEmailAlreadyExists ==
    \A s \in Slots :
        LET c == calls[s] IN
        (/\ c.op = "signup" /\ c.pc = "done" /\ ~c.fault
         /\ ~\E u \in c.pre.users : u.username = c.username
         /\ \E u \in c.pre.users : u.email = c.email)
            => /\ c.ret.kind = "value" /\ ~c.ret.success
               /\ c.ret.message \in {"Username already exists", "Email already exists"}
               /\ users = c.pre.users

\* C7: no two stored users share a username and no two share an email, also
\* when two signups interleave between the existence check and the insert.
UniqueUsernameAndEmail ==
    \A u, v \in users : u # v => /\ u.username # v.username
                                 /\ u.email # v.email

\* a signup passed the existence check, and by the time of its insert
\* another signup had stored the same username
SignupLostInsertRace ==
    \E s \in Slots :
        LET c == calls[s] IN
        /\ c.op = "signup" /\ c.pc = "done" /\ ~c.fault
        /\ c.ret = Result(FALSE, "Failed to create account", NoUser)
        /\ ~\E u \in c.pre.users : u.username = c.username
        /\ \E u \in users : u.username = c.username

\* C8: logout() with a session appends exactly one 'logout' entry naming the
\* session's user while the session is still stored, then removes the
\* session; logout() without a session appends nothing and changes no store.
LogoutLogsThenClears ==
    \A s \in Slots :
        LET c == calls[s] IN
        /\ (c.op = "logout" /\ c.pc = "clear" /\ c.pre.session # {})
               => /\ session = c.pre.session
                  /\ \E id \in c.pre.session :
                         logs = Append(c.pre.logs, LogoutLogEntry(id))
        /\ (c.op = "logout" /\ c.pc = "done" /\ ~c.fault /\ c.pre.session # {})
               => /\ session = {}
                  /\ users = c.pre.users
                  /\ \E id \in c.pre.session :
                         logs = Append(c.pre.logs, LogoutLogEntry(id))
        /\ (c.op = "logout" /\ c.pc \in {"log", "clear", "done"} /\ c.pre.session = {})
               => /\ c.pc # "log"
                  /\ session = c.pre.session
                  /\ users = c.pre.users
                  /\ logs = c.pre.logs

\* a logout that found a session has returned
LogoutWithSessionReturned ==
    \E s \in Slots :
        LET c == calls[s] IN
        /\ c.op = "logout" /\ c.pc = "done" /\ ~c.fault
        /\ c.pre.session # {}

\* C9: isAuthenticated() returns true exactly when the session store holds a
\* record, whether or not the user that record names is stored.
IsAuthenticatedIffSessionRecord ==
    \A s \in Slots :
        LET c == calls[s] IN
        (c.op = "isAuthenticated" /\ c.pc = "done" /\ ~c.fault)
            => /\ c.ret.kind = "value"
               /\ c.ret.success = (session # {})

\* isAuthenticated() has returned while every session record names a user
\* that is not stored
IsAuthenticatedOnDanglingSession ==
    \E s \in Slots :
        LET c == calls[s] IN
        /\ c.op = "isAuthenticated" /\ c.pc = "done" /\ ~c.fault
        /\ session # {}
        /\ \A id \in session : getUserById(users, id) = NoUser

\* C10: getCurrentUser() never throws; it returns null when no session
\* exists, when the session names a user id that is not stored, and when a
\* storage read fails.
GetCurrentUserNeverThrows ==
    \A s \in Slots :
        LET c == calls[s] IN
        (c.op = "getCurrentUser" /\ c.pc = "done")
            => /\ c.ret.kind = "value"
               /\ (\/ session = {}
                   \/ getUserById(users, getSession(session)) = NoUser
                   \/ c.fault)
                      => c.ret.user = NoUser

\* getCurrentUser() has returned for a session naming a user that is not
\* stored
GetCurrentUserOnDanglingSession ==
    \E s \in Slots :
        LET c == calls[s] IN
        /\ c.op = "getCurrentUser" /\ c.pc = "done" /\ ~c.fault
        /\ session # {}
        /\ getUserById(users, getSession(session)) = NoUser

\* C11: the user value a successful signup returns to its caller does not
\* carry the stored password hash.
SignupResultHidesPasswordHash ==
    \A s \in Slots :
        LET c == calls[s] IN
        (c.op = "signup" /\ c.pc = "done" /\ c.ret.kind = "value" /\ c.ret.success)
            => c.ret.user.passwordHash = NoHash

\* C12: a delete requested by a logged-in user who is not the owner of the
\* video raises the 'Permission denied' toast and changes nothing: the videos
\* store (so what getAllVideos() returns), the blobs and the logs are as they
\* were when the handler started.
DeleteByNonOwnerRefused ==
    \A t \in TaskSlots :
        LET c == tasks[t] IN
        (/\ c.op = "delete" /\ c.pc = "done"
         /\ c.pre.user # NoUser
         /\ c.pre.user.id # c.pre.video.userId)
            => /\ c.toast = "Permission denied"
               /\ videos = c.pre.videos
               /\ videoBlobs = c.pre.videoBlobs
               /\ logs = c.pre.logs

DeleteByNonOwnerReturned ==
    \E t \in TaskSlots :
        LET c == tasks[t] IN
        /\ c.op = "delete" /\ c.pc = "done"
        /\ c.pre.user # NoUser
        /\ c.pre.user.id # c.pre.video.userId
        /\ c.toast = "Permission denied"
        /\ c.pre.video \in videos
        /\ getVideoBlob(videoBlobs, StripLocal(c.pre.video.cloudinaryUrl)) # NoBlob

\* C13: a confirmed delete of a local-scheme video by its owner deletes the
\* blob first, then the video record, then appends one 'delete' log entry;
\* when the blob deletion is rejected the blob stays, and the record is
\* deleted and the entry appended all the same.
DeleteBlobThenRecordThenLog ==
    \A t \in TaskSlots :
        LET c == tasks[t]
            publicId == StripLocal(c.video.cloudinaryUrl)
            blobsAfter == IF c.blobFault THEN c.pre.videoBlobs
                          ELSE deleteVideoBlob(c.pre.videoBlobs, publicId)
        IN
        (c.op = "delete" /\ c.ran /\ StartsWithLocal(c.video.cloudinaryUrl))
            => /\ c.pc = "blob" =>
                    /\ videoBlobs = c.pre.videoBlobs
                    /\ videos = c.pre.videos
                    /\ logs = c.pre.logs
               /\ c.pc = "record" =>
                    /\ videoBlobs = blobsAfter
                    /\ videos = c.pre.videos
                    /\ logs = c.pre.logs
               /\ c.pc = "log" =>
                    /\ videoBlobs = blobsAfter
                    /\ videos = deleteVideo(c.pre.videos, c.video.id)
                    /\ logs = c.pre.logs
               /\ (c.pc = "done" /\ ~c.fault) =>
                    /\ videoBlobs = blobsAfter
                    /\ videos = deleteVideo(c.pre.videos, c.video.id)
                    /\ logs = addLog(c.pre.logs, DeleteLogEntry(c.video))

DeleteSettledAfterBlobFault ==
    \E t \in TaskSlots :
        LET c == tasks[t] IN
        /\ c.op = "delete" /\ c.pc = "done" /\ c.ran /\ c.blobFault /\ ~c.fault
        /\ c.video \in c.pre.videos
        /\ c.video \notin videos
        /\ getVideoBlob(videoBlobs, StripLocal(c.video.cloudinaryUrl)) # NoBlob
        /\ logs[Len(logs)] = DeleteLogEntry(c.video)

\* C14: every stored video record that carries a local:// URI and that no
\* delete handler has been started on has a blob stored under the identifier
\* of its URI, and once handleUpload has stored the record that blob is the
\* file of that upload.
LocalVideoHasItsBlob ==
    /\ \A v \in videos :
        (/\ StartsWithLocal(v.cloudinaryUrl)
         /\ \A t \in TaskSlots : ~(tasks[t].op = "delete" /\ tasks[t].ran
                                     /\ tasks[t].video.id = v.id))
            => getVideoBlob(videoBlobs, StripLocal(v.cloudinaryUrl)) # NoBlob
    /\ (upload.pc = "log" /\ StartsWithLocal(upload.response))
            => getVideoBlob(videoBlobs, StripLocal(upload.response)) = upload.file

\* what every run of the resolution keeps to: at most MaxAttempts blob reads,
\* one delay after each miss, every delay longer than the one before, no
\* read after the read that found the blob, and no read at all for a URI
\* without the local scheme
ResolvesWithBackoff(e) ==
    /\ e.reads <= MaxAttempts
    /\ Len(e.delays) <= e.reads
    /\ \A i \in 1..Len(e.delays) : \A j \in 1..Len(e.delays) :
            i < j => e.delays[i] < e.delays[j]
    /\ e.outcome = "resolved" => Len(e.delays) = e.reads - 1
    /\ e.outcome = "direct" => e.reads = 0 /\ e.url = "none"

ObjectUrlRevokedAfterCleanup ==
    \A s \in EffectSlots : effects[s].cleaned => effects[s].url # "live"

\* C17: a settled handleComment has changed the stored comment list of the
\* video exactly when a user is logged in and the text is non-empty after
\* trimming: the list is then the list stored before with one element
\* appended, which carries the trimmed text and the author's id and username,
\* and the logs have one more 'comment' entry; otherwise the videos store and
\* the logs are as they were.
CommentAppendsExactlyOne ==
    \A t \in TaskSlots :
        LET c == tasks[t]
            before == FindVideo(c.pre.videos, c.pre.video.id).comments
            after == FindVideo(videos, c.pre.video.id).comments
        IN
        (c.op = "comment" /\ c.pc = "done" /\ ~c.fault)
            => IF c.pre.user # NoUser /\ Trim(c.text) # <<>>
               THEN /\ after = Append(before, [userId |-> c.pre.user.id,
                                               username |-> c.pre.user.username,
                                               text |-> Trim(c.text)])
                    /\ logs = addLog(c.pre.logs, CommentLogEntry(c.pre.video))
               ELSE /\ videos = c.pre.videos
                    /\ logs = c.pre.logs

\* C18: when a like of a video has run to its end and the next thing the user
\* does is the unlike of that video, which runs to its end too, the stored
\* like count of the video is again what it was before the like.
LikeThenUnlikeRestoresCount ==
    \A t \in TaskSlots :
        LET c == tasks[t] IN
        (/\ c.op = "like" /\ c.pc = "done" /\ c.ran /\ ~c.fault /\ c.liked
         /\ c.prev.op = "like" /\ c.prev.ok /\ ~c.prev.liked
         /\ FindVideo(c.prev.videos, c.video.id) # NoVideo)
            => FindVideo(videos, c.video.id).likes
                    = FindVideo(c.prev.videos, c.video.id).likes

\* C19: a load of the Watch page that ran to its end has, for the id of a
\* stored video, raised the stored view count of that video by exactly 1 and
\* appended exactly one 'view' entry to the logs, whatever the count was
\* before; for an id that matches no video it has changed no store.
LoadCountsOneView ==
    \A t \in TaskSlots :
        LET c == tasks[t]
            before == FindVideo(c.pre.videos, c.videoId)
            after == FindVideo(videos, c.videoId)
        IN
        (c.op = "load" /\ c.pc = "done" /\ ~c.fault)
            => IF before # NoVideo
               THEN /\ after = [before EXCEPT !.views = @ + 1]
                    /\ logs = addLog(c.pre.logs, ViewLogEntry(before))
                    /\ videoBlobs = c.pre.videoBlobs
               ELSE /\ videos = c.pre.videos
                    /\ logs = c.pre.logs
                    /\ videoBlobs = c.pre.videoBlobs

RepeatedLoadSettled ==
    \E t \in TaskSlots :
        LET c == tasks[t] IN
        /\ c.op = "load" /\ c.pc = "done" /\ ~c.fault
        /\ FindVideo(c.pre.videos, c.videoId).views >= 1
        /\ FindVideo(videos, c.videoId).views
                = FindVideo(c.pre.videos, c.videoId).views + 1
        /\ logs[Len(logs)].type = "view"

\* C20: no step of the Watch page (loads, route changes between videos,
\* likes, comments) lowers the stored view count of a video.
ViewsNeverDecrease ==
    [][\A v \in videos : \A w \in videos' : w.id = v.id => w.views >= v.views]_vars

\* C21: when a demo-mode upload into an empty videos store settles with
\* 'Upload successful!', the store holds exactly one record, owned by the
\* uploading user, with views = 0, likes = 0 and no comments, and one 'upload'
\* entry has been appended to the logs; a load of the Watch page that then
\* runs to its end on that store leaves the record with views = 1.
FirstUploadThenOneView ==
    /\ [][(/\ upload.pc = "log"
           /\ upload'.toast = "Upload successful!"
           /\ app.isDemoMode
           /\ videos \ {upload.video} = {})
            => /\ videos' = {upload.video}
               /\ upload.video.userId = app.user.id
               /\ upload.video.views = 0
               /\ upload.video.likes = 0
               /\ upload.video.comments = <<>>
               /\ StartsWithLocal(upload.video.cloudinaryUrl)
               /\ logs' = addLog(logs, UploadLogEntry(upload.caption, upload.video))]_vars
    /\ [](\A t \in TaskSlots :
            LET c == tasks[t] IN
            (/\ c.op = "load" /\ c.pc = "done" /\ ~c.fault
             /\ Cardinality(c.pre.videos) = 1
             /\ FindVideo(c.pre.videos, c.videoId) # NoVideo
             /\ FindVideo(c.pre.videos, c.videoId).views = 0)
                => /\ Cardinality(videos) = 1
                   /\ FindVideo(videos, c.videoId).views = 1)

FirstUploadViewedOnce ==
    \E t \in TaskSlots :
        LET c == tasks[t] IN
        /\ c.op = "load" /\ c.pc = "done" /\ ~c.fault
        /\ \E v \in c.pre.videos :
              /\ c.pre.videos = {v}
              /\ v.id = c.videoId
              /\ StartsWithLocal(v.cloudinaryUrl)
              /\ v.views = 0 /\ v.likes = 0 /\ v.comments = <<>>
        /\ \E i \in 1..Len(c.pre.logs) : c.pre.logs[i].type = "upload"
        /\ FindVideo(videos, c.videoId).views = 1

\* C22: in remote mode the ingest resolves only when the request ended in a
\* load event with status 200 and a readable body, and rejects on every other
\* outcome; when it rejects, the step leaves videos, blobs and logs as they
\* were and ends handleUpload with 'Upload failed' and uploading = false.
RemoteIngestFailsClosed ==
    [][(upload.pc = "xhr" /\ upload'.pc # "xhr")
        => /\ ~app.isDemoMode
           /\ upload'.xhr \in XhrOutcomes
           /\ IF upload'.xhr = "ok"
              THEN /\ upload'.pc = "saveVideo"
                   /\ upload'.uploading
              ELSE /\ upload'.pc = "idle"
                   /\ ~upload'.uploading
                   /\ upload'.toast = "Upload failed"
                   /\ upload'.video = NoVideo
                   /\ videos' = videos
                   /\ videoBlobs' = videoBlobs
                   /\ logs' = logs]_vars

RemoteIngestRejected ==
    /\ ~app.isDemoMode
    /\ upload.pc = "idle"
    /\ upload.xhr \in XhrOutcomes \ {"ok"}
    /\ ~upload.uploading
    /\ upload.toast = "Upload failed"
    /\ videos = {}
    /\ \A i \in 1..Len(logs) : logs[i].type # "upload"

\* C23: the log store is append-only: a step other than the settling of
\* clearLogs leaves the entries stored so far in place and unchanged, adding
\* at most one entry after them; the settling of clearLogs empties the log
\* store, or leaves it as it was when the request was rejected, and changes
\* none of users, videos, video blobs and session.
LogsAppendOnlyUntilCleared ==
    [][IF \E t \in TaskSlots : /\ tasks[t].op = "clearLogs"
                               /\ tasks[t].pc = "clear"
                               /\ tasks'[t].pc = "done"
       THEN /\ \/ logs' = <<>>
               \/ /\ logs' = logs
                  /\ \E t \in TaskSlots : tasks'[t].op = "clearLogs" /\ tasks'[t].fault
            /\ users' = users
            /\ session' = session
            /\ videos' = videos
            /\ videoBlobs' = videoBlobs
       ELSE /\ Len(logs') \in {Len(logs), Len(logs) + 1}
            /\ SubSeq(logs', 1, Len(logs)) = logs]_vars

LogsClearedStoresKept ==
    \E t \in TaskSlots :
        /\ tasks[t].op = "clearLogs" /\ tasks[t].pc = "done" /\ ~tasks[t].fault
        /\ tasks[t].toast = "Logs Cleared"
        /\ Len(tasks[t].pre.logs) > 2
        /\ logs = <<>>
        /\ videos # {} /\ videos = tasks[t].pre.videos
        /\ videoBlobs # {} /\ videoBlobs = tasks[t].pre.videoBlobs
        /\ users # {} /\ session # {}

\* C24: no stored video has a negative like count, whatever the logged-in
\* user did on the Watch page: opening it, moving to another video through
\* 'Up Next', liking and unliking.
LikesNeverNegative ==
    \A v \in videos : v.likes >= 0

\* C25: a comment that has been stored stays in the stored comment list of
\* its video, with the same content and at the same place, for as long as the
\* video is stored: over every step, the list stored for a video that is
\* still there afterwards begins with the list stored before.
StoredCommentsKept ==
    [][\A v \in videos :
          LET w == FindVideo(videos', v.id) IN
          w # NoVideo
              => /\ Len(w.comments) >= Len(v.comments)
                 /\ SubSeq(w.comments, 1, Len(v.comments)) = v.comments]_vars

\* C26: two clicks on like that both read the page state before the first
\* one's setVideo lose an update: when both handlers have run to their end
\* with no request rejected, having captured the same video and liked = false,
\* the stored like count is the captured count plus one, not plus two.
RacingLikesCountOnce ==
    \A t \in TaskSlots, u \in TaskSlots :
        LET c == tasks[t]
            d == tasks[u]
        IN
        (/\ t # u
         /\ c.op = "like" /\ c.pc = "done" /\ c.ran /\ ~c.fault /\ ~c.liked
         /\ d.op = "like" /\ d.pc = "done" /\ d.ran /\ ~d.fault /\ ~d.liked
         /\ c.pre.video = d.pre.video)
            => FindVideo(videos, c.pre.video.id).likes = c.pre.video.likes + 1

TwoLikesOneCounted ==
    /\ faults = 0
    /\ \A t \in TaskSlots :
          /\ tasks[t].op = "like" /\ tasks[t].pc = "done" /\ tasks[t].ran
          /\ tasks[t].toast = "Liked!"
          /\ tasks[t].pre.video.id = watch.video.id
    /\ \E t \in TaskSlots :
          FindVideo(videos, watch.video.id).likes
              = FindVideo(tasks[t].pre.videos, watch.video.id).likes + 1
    /\ Len(SelectSeq(logs, LAMBDA l : l.type = "like")) = 2

\* C27: in local mode every ingest reports the same progress: the callback is
\* called with 10, 20, ..., 100, each call ten above the one before, ten calls
\* in all; the interval is still running only below 100, the steps that lead
\* to the result (metadata, seek, blob write) and the writes of handleUpload
\* come after the call with 100 and change the progress no more, and the
\* ingest never goes through the request to the remote host.
LocalProgressTenToHundred ==
    /\ [](app.isDemoMode
            => /\ upload.pc # "xhr" /\ upload.xhr = "none"
               /\ upload.pc = "tick"
                    => upload.progress \in {ProgressStep * k : k \in 0..(ProgressDone \div ProgressStep - 1)}
               /\ upload.pc \in {"metadata", "seeked", "saveBlob", "saveVideo", "log"}
                    => upload.progress = ProgressDone)
    /\ [][(app.isDemoMode /\ upload'.progress # upload.progress)
            => \/ /\ upload.pc = "tick"
                  /\ upload'.progress = upload.progress + ProgressStep
                  /\ upload'.progress <= ProgressDone
                  /\ upload'.pc = "metadata" <=> upload'.progress = ProgressDone
               \/ /\ upload'.pc = "idle"
                  /\ upload'.progress = 0]_vars

LocalIngestResolvedAtHundred ==
    /\ app.isDemoMode
    /\ upload.pc = "saveVideo"
    /\ upload.progress = ProgressDone
    /\ StartsWithLocal(upload.response)

\* C28: a signup or login that returns success = false leaves the users and
\* session stores exactly as they were when the call started, also when its
\* write went through and the append to the logs that follows was rejected.
FailedAuthCallLeavesStores ==
    \A s \in Slots :
        LET c == calls[s] IN
        (/\ c.op \in {"signup", "login"} /\ c.pc = "done"
         /\ c.ret.kind = "value" /\ ~c.ret.success)
            => /\ users = c.pre.users
               /\ session = c.pre.session

\* C30: a protected route shows its page only while the auth context is not
\* loading and isAuth is true; once the initial refresh has settled, isAuth
\* is true only while a session record is stored; and when the context's
\* logout() has run to its end, isAuth is false, user is null, no session
\* record is stored and the route redirects.
ProtectedPageNeedsSession ==
    /\ [](ProtectedRoute = "children" => ~app.loading /\ app.isAuth)
    /\ [](~app.loading /\ app.isAuth => session # {})
    /\ [][(/\ app.pc \in {"logoutRead", "logoutLog", "logoutClear"}
           /\ app'.pc = "idle"
           /\ faults' = faults)
            => /\ ~app'.isAuth
               /\ app'.user = NoUser
               /\ session' = {}
               /\ ProtectedRoute' = "navigate"]_vars

LoggedOutAfterRefresh ==
    /\ app.pc = "idle" /\ ~app.loading
    /\ ~app.isAuth /\ app.user = NoUser
    /\ session = {}
    /\ users # {}
    /\ \E i \in 1..Len(logs) : logs[i].type = "logout"

\* C29: every local-mode upload settles: whenever the uploading flag of the
\* Upload page is true it is false again later, also in the runs in which the
\* <video> element never fires loadedmetadata or seeked.
UploadingEventuallyFalse ==
    upload.uploading ~> ~upload.uploading

====
